---- MODULE Spec2Model ----
(***************************************************************************)
(* Event-based backtesting engine: BacktestBase (ledger and order          *)
(* executor), LongOnlyBacktest and LongShortBacktest (position state       *)
(* machines and run loops).                                                *)
(*                                                                         *)
(* Python floats are modelled as exact rationals <<num, den>> (den > 0,    *)
(* lowest terms), i.e. floating-point rounding is left aside.  None is the *)
(* empty tuple.  Bar indices are 0-based as in the source; the close       *)
(* price of bar i is data[i + 1].                                          *)
(***************************************************************************)
EXTENDS Integers, Sequences, FiniteSets, TLC

VARIABLES strategy, data, initial_amount, ftc, ptc,
          amount, units, position, trades,
          pc, sma, threshold, candle, err, log, apiCalls, call

vars == <<strategy, data, initial_amount, ftc, ptc,
          amount, units, position, trades,
          pc, sma, threshold, candle, err, log, apiCalls, call>>

config == <<strategy, data, initial_amount, ftc, ptc>>

----------------------------------------------------------------------------
(* Bounds of the model *)

MaxBars == 5
MaxPrice == 2
MaxCalls == 2

----------------------------------------------------------------------------
(* Exact rational arithmetic standing for Python float arithmetic *)

Abs(x) == IF x < 0 THEN 0 - x ELSE x

RECURSIVE Gcd(_, _)
Gcd(a, b) == IF b = 0 THEN a ELSE Gcd(b, a % b)

Rat(n, d) ==
    LET s == IF d < 0 THEN 0 - 1 ELSE 1
        g == Gcd(Abs(n), Abs(d))
    IN  <<(s * n) \div g, (s * d) \div g>>

Zero == <<0, 1>>
One == <<1, 1>>
RInt(n) == <<n, 1>>
RAdd(a, b) == Rat(a[1] * b[2] + b[1] * a[2], a[2] * b[2])
RSub(a, b) == Rat(a[1] * b[2] - b[1] * a[2], a[2] * b[2])
RMul(a, b) == Rat(a[1] * b[1], a[2] * b[2])
RDiv(a, b) == Rat(a[1] * b[2], a[2] * b[1])
RNeg(a) == <<0 - a[1], a[2]>>
RLt(a, b) == a[1] * b[2] < b[1] * a[2]
RLe(a, b) == a[1] * b[2] <= b[1] * a[2]

None == <<>>
All == <<"all">>

(* Python truthiness of an optional number: None and 0 are falsy *)
Truthy(x) == x # None /\ x # Zero

----------------------------------------------------------------------------
(* Parameter domains *)

Strategies == {"LongOnly", "LongShort"}
Prices == 1..MaxPrice
Series == [1..MaxBars -> Prices]
InitialAmounts == {RInt(1), RInt(2)}
FixedCosts == {Zero, RInt(1)}
PropCosts == {Zero, <<1, 10>>}
Windows == 1..(MaxBars + 1)
Thresholds == {<<1, 2>>, One}

(* Arguments of direct calls of the executor: the series of these runs     *)
(* hold one price up to the last bar, and orders are placed on the first   *)
(* or the last bar                                                         *)
ApiSeries == {s \in Series : \A i \in 1..(MaxBars - 1) : s[i] = s[1]}
ApiUnits == {RInt(1)}
ApiAmounts == {RInt(3)}

----------------------------------------------------------------------------
(* Bar series access: BacktestBase._get_date_price *)

NumBars == Len(data)
Close(c) == data[c + 1]
Price(c) == RInt(Close(c))

----------------------------------------------------------------------------
(* Signal: SMA, difference and norm_diff of run_mean_reversion_strategy.   *)
(* rolling(s).mean() is defined for bars i >= s - 1; difference[i] is      *)
(* close[i] - SMA[i]; mean() and std() skip the undefined bars and std()   *)
(* is the sample deviation (n - 1).  Everything is kept in integers by     *)
(* scaling difference by s: Diff(s, i) = s * difference[i], which leaves   *)
(* norm_diff unchanged.                                                    *)

DefinedBars(s) == {i \in 0..(NumBars - 1) : i >= s - 1}

WindowSum(s, i) ==
    LET RECURSIVE W(_)
        W(k) == IF k < i - s + 1 THEN 0 ELSE Close(k) + W(k - 1)
    IN  W(i)

Diff(s, i) == s * Close(i) - WindowSum(s, i)

SumDiff(s) ==
    LET RECURSIVE T(_)
        T(k) == IF k < s - 1 \/ k < 0 THEN 0 ELSE Diff(s, k) + T(k - 1)
    IN  T(NumBars - 1)

SumDiffSq(s) ==
    LET RECURSIVE T(_)
        T(k) == IF k < s - 1 \/ k < 0 THEN 0 ELSE Diff(s, k) * Diff(s, k) + T(k - 1)
    IN  T(NumBars - 1)

Count(s) == Cardinality(DefinedBars(s))

(* n * (difference[i] - mean), scaled: its sign is the sign of norm_diff[i] *)
Dev(s, i) == Count(s) * Diff(s, i) - SumDiff(s)

(* n * (n - 1) * variance, scaled: zero exactly when difference is constant *)
Spread(s) == Count(s) * SumDiffSq(s) - SumDiff(s) * SumDiff(s)

(* norm_diff[i] is a number (not NaN): std() is NaN with fewer than two    *)
(* defined bars, and 0 / 0 is NaN when the difference is constant          *)
NormDefined(s, i) == i \in DefinedBars(s) /\ Count(s) >= 2 /\ Spread(s) > 0

(* a * sqrt(x) < b * sqrt(y) for x, y > 0 *)
SqrtLess(a, x, b, y) ==
    IF a < 0 /\ b >= 0 THEN TRUE
    ELSE IF a >= 0 /\ b <= 0 THEN FALSE
    ELSE IF a >= 0 THEN a * a * x < b * b * y
    ELSE a * a * x > b * b * y

(* norm_diff[i] = Dev * sqrt(n - 1) / sqrt(n * Spread); comparisons with a *)
(* rational c; every comparison with NaN is False                          *)
NormLess(s, i, c) ==
    /\ NormDefined(s, i)
    /\ SqrtLess(c[2] * Dev(s, i), Count(s) - 1, c[1], Count(s) * Spread(s))

NormGreater(s, i, c) ==
    /\ NormDefined(s, i)
    /\ SqrtLess(c[1], Count(s) * Spread(s), c[2] * Dev(s, i), Count(s) - 1)

NormGe(s, i, c) == NormDefined(s, i) /\ ~NormLess(s, i, c)
NormLe(s, i, c) == NormDefined(s, i) /\ ~NormGreater(s, i, c)

----------------------------------------------------------------------------
(* Ledger and order executor.  A ledger value L carries the fields the     *)
(* executor mutates (amount, units, trades), the position tag, and the     *)
(* trade lines the executor emits (log), each with the ledger it found.    *)

Ledger == [amount |-> amount, units |-> units, trades |-> trades,
           position |-> position, log |-> log]

Line(L, op, c, u, a) ==
    [op |-> op, candle |-> c, units |-> u, amount |-> a, price |-> Price(c),
     cash0 |-> L.amount, units0 |-> L.units, trades0 |-> L.trades]

(* variant: the performance is reported as a fraction, not in percent *)
ReportFraction(cash, n) ==
    [balance |-> cash,
     perf |-> RDiv(RSub(cash, initial_amount), initial_amount),
     trades |-> n]

(* the summary of _close_out: final balance, net performance, trades *)
Report(cash, n) ==
    [balance |-> cash,
     perf |-> RMul(RDiv(RSub(cash, initial_amount), initial_amount), RInt(100)),
     trades |-> n]

(* the line of a close-out, with the summary printed after it *)
SummaryLine(L, c, cash, n) ==
    Line(L, "close", c, None, None) @@ [report |-> Report(cash, n)]

(* variant: the proportional cost is credited instead of charged *)
PlaceBuyOrderCredited(L, c, u, a) ==
    LET price == Price(c)
        n == IF u = None THEN RDiv(a, price) ELSE u
    IN  [L EXCEPT
           !.amount = RSub(L.amount, RAdd(RMul(RMul(n, price), RSub(One, ptc)), ftc)),
           !.units = RAdd(L.units, n),
           !.trades = L.trades + 1,
           !.log = Append(L.log, Line(L, "buy", c, u, a))]

PlaceBuyOrder(L, c, u, a) ==
    LET price == Price(c)
        n == IF u = None THEN RDiv(a, price) ELSE u
    IN  [L EXCEPT
           !.amount = RSub(L.amount, RAdd(RMul(RMul(n, price), RAdd(One, ptc)), ftc)),
           !.units = RAdd(L.units, n),
           !.trades = L.trades + 1,
           !.log = Append(L.log, Line(L, "buy", c, u, a))]

(* variant: the fixed cost is not charged *)
PlaceSellOrderNoFixed(L, c, u, a) ==
    LET price == Price(c)
        n == IF u = None THEN RDiv(a, price) ELSE u
    IN  [L EXCEPT
           !.amount = RAdd(L.amount, RMul(RMul(n, price), RSub(One, ptc))),
           !.units = RSub(L.units, n),
           !.trades = L.trades + 1,
           !.log = Append(L.log, Line(L, "sell", c, u, a))]

PlaceSellOrder(L, c, u, a) ==
    LET price == Price(c)
        n == IF u = None THEN RDiv(a, price) ELSE u
    IN  [L EXCEPT
           !.amount = RAdd(L.amount, RSub(RMul(RMul(n, price), RSub(One, ptc)), ftc)),
           !.units = RSub(L.units, n),
           !.trades = L.trades + 1,
           !.log = Append(L.log, Line(L, "sell", c, u, a))]

(* variant: the close-out is charged like a sell order *)
CloseOutCosted(L, c) ==
    [L EXCEPT
       !.amount = RAdd(L.amount,
                       RSub(RMul(RMul(L.units, Price(c)), RSub(One, ptc)), ftc)),
       !.units = Zero,
       !.trades = L.trades + 1,
       !.log = Append(L.log, SummaryLine(L, c,
                   RAdd(L.amount,
                        RSub(RMul(RMul(L.units, Price(c)), RSub(One, ptc)), ftc)),
                   L.trades + 1))]

(* variant: the close-out credits the holdings but does not clear them *)
CloseOutKeepsUnits(L, c) ==
    [L EXCEPT
       !.amount = RAdd(L.amount, RMul(L.units, Price(c))),
       !.trades = L.trades + 1,
       !.log = Append(L.log, SummaryLine(L, c,
                   RAdd(L.amount, RMul(L.units, Price(c))), L.trades + 1))]

(* variant: the close-out is not counted as a trade *)
CloseOutUncounted(L, c) ==
    [L EXCEPT
       !.amount = RAdd(L.amount, RMul(L.units, Price(c))),
       !.units = Zero,
       !.log = Append(L.log, SummaryLine(L, c,
                   RAdd(L.amount, RMul(L.units, Price(c))), L.trades))]

(* the summary block is printed in verbose mode, the constructor's default *)
CloseOut(L, c) ==
    [L EXCEPT
       !.amount = RAdd(L.amount, RMul(L.units, Price(c))),
       !.units = Zero,
       !.trades = L.trades + 1,
       !.log = Append(L.log, SummaryLine(L, c,
                   RAdd(L.amount, RMul(L.units, Price(c))), L.trades + 1))]

----------------------------------------------------------------------------
(* LongShortBacktest helpers *)

(* variant: a size is taken as supplied unless it is None *)
GoLongNoneTest(L, c, u, a) ==
    LET L1 == IF L.position = 0 - 1
              THEN PlaceBuyOrder(L, c, RNeg(L.units), None) ELSE L
    IN  IF u # None THEN PlaceBuyOrder(L1, c, u, None)
        ELSE IF a # None
             THEN PlaceBuyOrder(L1, c, None, IF a = All THEN L1.amount ELSE a)
             ELSE L1

GoLong(L, c, u, a) ==
    LET L1 == IF L.position = 0 - 1
              THEN PlaceBuyOrder(L, c, RNeg(L.units), None) ELSE L
    IN  IF Truthy(u) THEN PlaceBuyOrder(L1, c, u, None)
        ELSE IF Truthy(a)
             THEN PlaceBuyOrder(L1, c, None, IF a = All THEN L1.amount ELSE a)
             ELSE L1

(* variant: the amount is tested before the units *)
GoShortAmountFirst(L, c, u, a) ==
    LET L1 == IF L.position = 1
              THEN PlaceSellOrder(L, c, L.units, None) ELSE L
    IN  IF Truthy(a)
        THEN PlaceSellOrder(L1, c, None, IF a = All THEN L1.amount ELSE a)
        ELSE IF Truthy(u) THEN PlaceSellOrder(L1, c, u, None)
             ELSE L1

GoShort(L, c, u, a) ==
    LET L1 == IF L.position = 1
              THEN PlaceSellOrder(L, c, L.units, None) ELSE L
    IN  IF Truthy(u) THEN PlaceSellOrder(L1, c, u, None)
        ELSE IF Truthy(a)
             THEN PlaceSellOrder(L1, c, None, IF a = All THEN L1.amount ELSE a)
             ELSE L1

----------------------------------------------------------------------------
(* Loop bodies of run_mean_reversion_strategy: the decision for one bar *)

(* variant: a long position is sold on every bar, whatever the signal *)
LongOnlyBarAlwaysExit(L, c) ==
    IF L.position = 0
    THEN IF NormLess(sma, c, RNeg(threshold))
         THEN [PlaceBuyOrder(L, c, None, L.amount) EXCEPT !.position = 1]
         ELSE L
    ELSE IF L.position = 1
         THEN [PlaceSellOrder(L, c, L.units, None) EXCEPT !.position = 0]
         ELSE L

(* variant: the long exit needs norm_diff strictly above 0 *)
LongOnlyBarStrictExit(L, c) ==
    IF L.position = 0
    THEN IF NormLess(sma, c, RNeg(threshold))
         THEN [PlaceBuyOrder(L, c, None, L.amount) EXCEPT !.position = 1]
         ELSE L
    ELSE IF L.position = 1
         THEN IF NormGreater(sma, c, Zero)
              THEN [PlaceSellOrder(L, c, L.units, None) EXCEPT !.position = 0]
              ELSE L
         ELSE L

LongOnlyBar(L, c) ==
    IF L.position = 0
    THEN IF NormLess(sma, c, RNeg(threshold))
         THEN [PlaceBuyOrder(L, c, None, L.amount) EXCEPT !.position = 1]
         ELSE L
    ELSE IF L.position = 1
         THEN IF NormGe(sma, c, Zero)
              THEN [PlaceSellOrder(L, c, L.units, None) EXCEPT !.position = 0]
              ELSE L
         ELSE L

(* variant: a long position is reversed into a short one on a short signal *)
LongShortBarReversing(L, c) ==
    IF L.position = 0
    THEN IF NormLess(sma, c, RNeg(threshold))
         THEN [GoLong(L, c, None, L.amount) EXCEPT !.position = 1]
         ELSE IF NormGreater(sma, c, threshold)
              THEN [GoShort(L, c, None, L.amount) EXCEPT !.position = 0 - 1]
              ELSE L
    ELSE IF L.position = 1
         THEN IF NormGreater(sma, c, threshold)
              THEN [GoShort(L, c, None, L.amount) EXCEPT !.position = 0 - 1]
              ELSE IF NormGe(sma, c, Zero)
                   THEN [PlaceSellOrder(L, c, L.units, None) EXCEPT !.position = 0]
                   ELSE L
         ELSE IF L.position = 0 - 1
              THEN IF NormLe(sma, c, Zero)
                   THEN [PlaceBuyOrder(L, c, RNeg(L.units), None) EXCEPT !.position = 0]
                   ELSE L
              ELSE L

LongShortBar(L, c) ==
    IF L.position = 0
    THEN IF NormLess(sma, c, RNeg(threshold))
         THEN [GoLong(L, c, None, L.amount) EXCEPT !.position = 1]
         ELSE IF NormGreater(sma, c, threshold)
              THEN [GoShort(L, c, None, L.amount) EXCEPT !.position = 0 - 1]
              ELSE L
    ELSE IF L.position = 1
         THEN IF NormGe(sma, c, Zero)
              THEN [PlaceSellOrder(L, c, L.units, None) EXCEPT !.position = 0]
              ELSE L
         ELSE IF L.position = 0 - 1
              THEN IF NormLe(sma, c, Zero)
                   THEN [PlaceBuyOrder(L, c, RNeg(L.units), None) EXCEPT !.position = 0]
                   ELSE L
              ELSE L

BarDecision(L, c) ==
    IF strategy = "LongOnly" THEN LongOnlyBar(L, c) ELSE LongShortBar(L, c)

----------------------------------------------------------------------------
(* State machine *)

(* The loop variable of "for candle in range(sma, len(self.data))": it is  *)
(* unbound until the first iteration assigns it.                           *)
Unbound == 0 - 1

(* variant: the loop starts one bar early, at the last bar of the first window *)
NextCandleFromWindowEnd == IF candle = Unbound THEN sma - 1 ELSE candle + 1

NextCandle == IF candle = Unbound THEN sma ELSE candle + 1

Store(L) ==
    /\ amount' = L.amount
    /\ units' = L.units
    /\ trades' = L.trades
    /\ position' = L.position
    /\ log' = L.log

(* the last direct call of an executor method and its arguments *)
Called(op, c, u, a) == [op |-> op, candle |-> c, units |-> u, amount |-> a]
NoCall == Called("none", 0, None, None)

(* BacktestBase.__init__ *)
Init ==
    /\ strategy \in Strategies
    /\ data \in Series
    /\ initial_amount \in InitialAmounts
    /\ ftc \in FixedCosts
    /\ ptc \in PropCosts
    /\ amount = initial_amount
    /\ units = Zero
    /\ position = 0
    /\ trades = 0
    /\ pc = "idle"
    /\ sma = 0
    /\ threshold = Zero
    /\ candle = Unbound
    /\ err = "none"
    /\ log = <<>>
    /\ apiCalls = 0
    /\ call = NoCall

(* variant: the run keeps the cash the previous run ended with *)
StartRunNoCashReset(s, thr) ==
    /\ pc # "loop"
    /\ position' = 0
    /\ trades' = 0
    /\ sma' = s
    /\ threshold' = thr
    /\ candle' = Unbound
    /\ pc' = "loop"
    /\ err' = "none"
    /\ log' = <<>>
    /\ UNCHANGED <<config, amount, units, apiCalls, call>>

(* run_mean_reversion_strategy up to the loop: the reset of position,      *)
(* trades and amount (units is not assigned) and the signal columns        *)
StartRun(s, thr) ==
    /\ pc # "loop"
    /\ position' = 0
    /\ trades' = 0
    /\ amount' = initial_amount
    /\ sma' = s
    /\ threshold' = thr
    /\ candle' = Unbound
    /\ pc' = "loop"
    /\ err' = "none"
    /\ log' = <<>>
    /\ UNCHANGED <<config, units, apiCalls, call>>

(* one iteration of the loop *)
Bar ==
    /\ pc = "loop"
    /\ NextCandle < NumBars
    /\ candle' = NextCandle
    /\ Store(BarDecision(Ledger, NextCandle))
    /\ UNCHANGED <<config, pc, sma, threshold, err, apiCalls, call>>

(* the loop is exhausted: self._close_out(candle).  When the loop body     *)
(* never ran, candle is unbound and the call raises UnboundLocalError      *)
(* before _close_out is entered.                                           *)
EndRun ==
    /\ pc = "loop"
    /\ NextCandle >= NumBars
    /\ IF candle = Unbound
       THEN /\ pc' = "failed"
            /\ err' = "UnboundLocalError"
            /\ UNCHANGED <<amount, units, trades, position, log>>
       ELSE /\ pc' = "done"
            /\ err' = "none"
            /\ Store(CloseOut(Ledger, candle))
    /\ UNCHANGED <<config, sma, threshold, candle, apiCalls, call>>

Next ==
    \/ \E s \in Windows, thr \in Thresholds : StartRun(s, thr)
    \/ Bar
    \/ EndRun

Spec == Init /\ [][Next]_vars

----------------------------------------------------------------------------
(* Direct use of the executor on a freshly constructed instance *)

ApiCandles == {0, NumBars - 1}
OrderSizes == {<<None, None>>} \cup {<<u, None>> : u \in ApiUnits}
                  \cup {<<None, a>> : a \in ApiAmounts}
                  \cup (ApiUnits \X ApiAmounts)
EntrySizes == (ApiUnits \X ApiAmounts) \cup ({Zero} \X ApiAmounts)
                  \cup {<<None, Zero>>, <<None, All>>}

InitApi ==
    /\ Init
    /\ strategy = "LongShort"
    /\ data \in ApiSeries
    /\ initial_amount = RInt(2)

CanCall == pc = "idle" /\ apiCalls < MaxCalls

ApiFrame == UNCHANGED <<config, pc, sma, threshold, candle>>

(* variant: an order with no size is defaulted to zero units *)
CallBuyDefaulted(c, u, a) ==
    /\ CanCall
    /\ call' = Called("buy", c, u, a)
    /\ apiCalls' = apiCalls + 1
    /\ err' = "none"
    /\ Store(PlaceBuyOrder(Ledger, c, IF u = None /\ a = None THEN Zero ELSE u, a))
    /\ ApiFrame

(* an order with neither units nor amount: None / price raises TypeError   *)
(* before the ledger is touched                                            *)
CallBuy(c, u, a) ==
    /\ CanCall
    /\ call' = Called("buy", c, u, a)
    /\ apiCalls' = apiCalls + 1
    /\ IF u = None /\ a = None
       THEN /\ err' = "TypeError"
            /\ UNCHANGED <<amount, units, trades, position, log>>
       ELSE /\ err' = "none"
            /\ Store(PlaceBuyOrder(Ledger, c, u, a))
    /\ ApiFrame

CallSell(c, u, a) ==
    /\ CanCall
    /\ call' = Called("sell", c, u, a)
    /\ apiCalls' = apiCalls + 1
    /\ IF u = None /\ a = None
       THEN /\ err' = "TypeError"
            /\ UNCHANGED <<amount, units, trades, position, log>>
       ELSE /\ err' = "none"
            /\ Store(PlaceSellOrder(Ledger, c, u, a))
    /\ ApiFrame

CallCloseOut(c) ==
    /\ CanCall
    /\ call' = Called("close", c, None, None)
    /\ apiCalls' = apiCalls + 1
    /\ err' = "none"
    /\ Store(CloseOut(Ledger, c))
    /\ ApiFrame

CallGoLong(c, u, a) ==
    /\ CanCall
    /\ call' = Called("go_long", c, u, a)
    /\ strategy = "LongShort"
    /\ apiCalls' = apiCalls + 1
    /\ err' = "none"
    /\ Store(GoLong(Ledger, c, u, a))
    /\ ApiFrame

CallGoShort(c, u, a) ==
    /\ CanCall
    /\ call' = Called("go_short", c, u, a)
    /\ strategy = "LongShort"
    /\ apiCalls' = apiCalls + 1
    /\ err' = "none"
    /\ Store(GoShort(Ledger, c, u, a))
    /\ ApiFrame

NextApi ==
    \/ \E c \in ApiCandles, z \in OrderSizes : CallBuy(c, z[1], z[2])
    \/ \E c \in ApiCandles, z \in OrderSizes : CallSell(c, z[1], z[2])
    \/ \E c \in ApiCandles : CallCloseOut(c)
    \/ \E c \in ApiCandles, z \in EntrySizes : CallGoLong(c, z[1], z[2])
    \/ \E c \in ApiCandles, z \in EntrySizes : CallGoShort(c, z[1], z[2])

SpecApi == InitApi /\ [][NextApi]_vars

----------------------------------------------------------------------------
(* Reading the trade lines: the ledger an executor call left behind is the *)
(* ledger the next call found, or the current ledger for the last call     *)

After(k) ==
    IF k < Len(log)
    THEN [cash |-> log[k + 1].cash0, units |-> log[k + 1].units0,
          trades |-> log[k + 1].trades0]
    ELSE [cash |-> amount, units |-> units, trades |-> trades]

(* the size of an order: the explicit units, or amount / P when unset *)
SizeOf(e) == IF e.units # None THEN e.units ELSE RDiv(e.amount, e.price)

Calls(op) == {k \in DOMAIN log : log[k].op = op}

----------------------------------------------------------------------------
(* C1: every buy order of U units (the explicit units, or amount / P when  *)
(* units is unset) at close price P leaves cash = cash before              *)
(* - U*P*(1 + ptc) - ftc, holdings = holdings before + U and trade count   *)
(* = trade count before + 1.                                               *)
C1_BuyContract ==
    \A k \in Calls("buy") :
        LET e == log[k]
            U == SizeOf(e)
        IN  /\ After(k).cash =
                 RSub(RSub(e.cash0, RMul(RMul(U, e.price), RAdd(One, ptc))), ftc)
            /\ After(k).units = RAdd(e.units0, U)
            /\ After(k).trades = e.trades0 + 1

(* a buy sized by amount under both costs, following an earlier order *)
C1_Witness ==
    \E k \in Calls("buy") :
        /\ k > 1
        /\ log[k].units = None
        /\ ptc # Zero
        /\ ftc # Zero

(* C2: every sell order of U units at close price P leaves cash = cash     *)
(* before + U*P*(1 - ptc) - ftc, holdings = holdings before - U and trade  *)
(* count = trade count before + 1.                                         *)
C2_SellContract ==
    \A k \in Calls("sell") :
        LET e == log[k]
            U == SizeOf(e)
        IN  /\ After(k).cash =
                 RSub(RAdd(e.cash0, RMul(RMul(U, e.price), RSub(One, ptc))), ftc)
            /\ After(k).units = RSub(e.units0, U)
            /\ After(k).trades = e.trades0 + 1

(* a sell sized by amount under both costs, following an earlier order *)
C2_Witness ==
    \E k \in Calls("sell") :
        /\ k > 1
        /\ log[k].units = None
        /\ ptc # Zero
        /\ ftc # Zero

(* C6: close_out applies no cost: cash right after it is the net wealth    *)
(* cash + units * P right before it, whatever ftc and ptc are, and the     *)
(* trade count is one higher.                                              *)
C6_CloseOutNoCost ==
    \A k \in Calls("close") :
        LET e == log[k]
        IN  /\ After(k).cash = RAdd(e.cash0, RMul(e.units0, e.price))
            /\ After(k).trades = e.trades0 + 1

(* a close-out of a short holding under both costs *)
C6_Witness ==
    \E k \in Calls("close") :
        /\ RLt(log[k].units0, Zero)
        /\ RLt(After(k).cash, log[k].cash0)
        /\ ptc # Zero
        /\ ftc # Zero

----------------------------------------------------------------------------
(* Runs *)

Finished == pc \in {"done", "failed"}
LastBar == NumBars - 1

(* C3: after close_out, from any ledger state, units = 0 and the position  *)
(* tag is FLAT; after every completed run the position tag is FLAT.        *)
C3_CloseOutFlat ==
    (pc = "done" /\ log[Len(log)].op = "close") =>
        (units = Zero /\ position = 0)

(* C4: at every bar boundary of a run units > 0 implies LONG, units < 0    *)
(* implies SHORT and units = 0 implies FLAT.                               *)
C4_PositionMatchesUnits ==
    pc = "loop" =>
        /\ RLt(Zero, units) => position = 1
        /\ RLt(units, Zero) => position = 0 - 1
        /\ units = Zero => position = 0

(* C5: within a run the trade count is the number of buy, sell and         *)
(* close-out calls issued so far, each counted once, so at the end of the  *)
(* run it is the number of calls of the run, the final close-out included. *)
C5_TradesCountCalls ==
    /\ trades = Len(log)
    /\ \A k \in DOMAIN log : log[k].trades0 = k - 1
    /\ pc = "done" => trades = Cardinality(Calls("buy")) + Cardinality(Calls("sell")) + 1

(* a completed run with an entry, an exit and the close-out *)
C5_Witness ==
    /\ pc = "done"
    /\ trades = 3
    /\ Calls("buy") # {}
    /\ Calls("sell") # {}

(* C9: every run ends having invoked close_out exactly once, after the     *)
(* decisions for all bars, on the last bar index, also when the ledger is  *)
(* FLAT.                                                                   *)
C9_OneCloseOutPerRun ==
    Finished =>
        /\ Cardinality(Calls("close")) = 1
        /\ log[Len(log)].op = "close"
        /\ log[Len(log)].candle = LastBar

(* C10: with sma_window >= len(bar_series) the run does not fail: it       *)
(* completes with the close-out as its one trade and cash =                *)
(* initial_amount.                                                         *)
C10_ShortSeriesCompletes ==
    (Finished /\ sma >= NumBars) =>
        /\ pc = "done"
        /\ err = "none"
        /\ trades = 1
        /\ amount = initial_amount

----------------------------------------------------------------------------
(* Transition tables *)

(* a step that evaluates one bar of a run *)
BarStep == pc = "loop" /\ pc' = "loop" /\ candle' # candle

(* the trade line of an order issued on bar i against the current ledger *)
Issued(op, i, u, a) ==
    log' = Append(log, [op |-> op, candle |-> i, units |-> u, amount |-> a,
                        price |-> RInt(data[i + 1]), cash0 |-> amount,
                        units0 |-> units, trades0 |-> trades])

Min(S) == CHOOSE x \in S : \A y \in S : x <= y

BelowBars == {i \in sma..LastBar : NormLess(sma, i, RNeg(threshold))}
BackBars(b) == {i \in (b + 1)..LastBar : NormGe(sma, i, Zero)}

C7_Table ==
    (BarStep /\ strategy = "LongOnly") =>
        LET i == candle'
        IN  /\ i >= sma
            /\ IF position = 0 /\ NormLess(sma, i, RNeg(threshold))
               THEN position' = 1 /\ Issued("buy", i, None, amount)
               ELSE IF position = 1 /\ NormGe(sma, i, Zero)
                    THEN position' = 0 /\ Issued("sell", i, units, None)
                    ELSE UNCHANGED <<position, log>>

C7_Cycle ==
    (pc = "done" /\ strategy = "LongOnly" /\ BelowBars # {}) =>
        LET b == Min(BelowBars)
        IN  BackBars(b) # {} =>
                LET s == Min(BackBars(b))
                IN  /\ {k \in DOMAIN log : log[k].op # "close" /\ log[k].candle <= s}
                           = {1, 2}
                    /\ log[1].op = "buy" /\ log[1].candle = b
                    /\ log[2].op = "sell" /\ log[2].candle = s
                    /\ (\A i \in BelowBars : i < s) =>
                           (Len(log) = 3 /\ log[3].op = "close")

(* C7: in a LongOnly run each bar i >= sma fires a transition exactly when *)
(* FLAT and norm_diff[i] < -threshold (buy(amount = cash), to LONG) or     *)
(* LONG and norm_diff[i] >= 0 (sell(units = units), to FLAT); so a signal  *)
(* first below -threshold at bar b and first back at >= 0 at a later bar s *)
(* gives one buy at b and one sell at s before the close-out.              *)
C7_LongOnlyTable == [][C7_Table]_vars /\ [](C7_Cycle)

(* a completed LongOnly run: bought at b, held over a bar that fired       *)
(* nothing, sold at s, nothing else before the close-out                   *)
C7_Witness ==
    /\ pc = "done"
    /\ strategy = "LongOnly"
    /\ Len(log) = 3
    /\ log[1].op = "buy"
    /\ log[2].op = "sell"
    /\ log[2].candle > log[1].candle + 1
    /\ log[3].op = "close"

C8_Table ==
    (BarStep /\ strategy = "LongShort") =>
        LET i == candle'
        IN  /\ i >= sma
            /\ IF position = 0 /\ NormLess(sma, i, RNeg(threshold))
               THEN position' = 1 /\ Issued("buy", i, None, amount)
               ELSE IF position = 0 /\ NormGreater(sma, i, threshold)
               THEN position' = 0 - 1 /\ Issued("sell", i, None, amount)
               ELSE IF position = 1 /\ NormGe(sma, i, Zero)
               THEN position' = 0 /\ Issued("sell", i, units, None) /\ units' = Zero
               ELSE IF position = 0 - 1 /\ NormLe(sma, i, Zero)
               THEN position' = 0 /\ Issued("buy", i, RNeg(units), None) /\ units' = Zero
               ELSE UNCHANGED <<position, log>>

(* C8: in a LongShort run each bar i >= sma follows the table: FLAT and    *)
(* norm_diff[i] < -threshold issues buy(amount = cash), to LONG; FLAT and  *)
(* norm_diff[i] > threshold issues sell(amount = cash), to SHORT; LONG and *)
(* norm_diff[i] >= 0 issues sell(units = units), to FLAT; SHORT and        *)
(* norm_diff[i] <= 0 issues buy(units = -units), to FLAT; after each exit  *)
(* units is exactly 0.                                                     *)
C8_LongShortTable == [][C8_Table]_vars

----------------------------------------------------------------------------
(* Direct calls *)

(* a step that is a direct call of an executor method *)
CallStep == apiCalls' = apiCalls + 1

Unsized == call'.op \in {"buy", "sell"} /\ call'.units = None /\ call'.amount = None

LedgerUnchanged == UNCHANGED <<amount, units, trades, position, log>>

C11_Original ==
    (CallStep /\ Unsized) => (err' = "MissingOrderSize" /\ LedgerUnchanged)

(* C11 as stated: a buy or sell with neither units nor amount fails with   *)
(* MissingOrderSize and leaves cash, units and trade count as they were.   *)
C11_MissingOrderSize == [][C11_Original]_vars

C11_Amended ==
    (CallStep /\ Unsized) => (err' = "TypeError" /\ LedgerUnchanged)

(* C11 amended: a buy or sell with neither units nor amount fails with a   *)
(* TypeError raised to the caller (no size is defaulted) and leaves cash,  *)
(* units and trade count as they were.                                     *)
C11_UnsizedOrderRaises == [][C11_Amended]_vars

(* an unsized buy made after an order that changed the ledger *)
C11_Witness ==
    /\ call.op = "buy"
    /\ call.units = None
    /\ call.amount = None
    /\ err = "TypeError"
    /\ trades = 1

----------------------------------------------------------------------------
(* Runs with any configuration the constructor and the run accept: neither *)
(* checks the sign of amount or threshold.                                 *)

AnyAmounts == {RInt(0 - 1), RInt(1)}
AnyThresholds == {<<0 - 1, 2>>, Zero, <<1, 2>>}

InitAny ==
    /\ strategy \in Strategies
    /\ data \in Series
    /\ initial_amount \in AnyAmounts
    /\ ftc \in FixedCosts
    /\ ptc = Zero
    /\ amount = initial_amount
    /\ units = Zero
    /\ position = 0
    /\ trades = 0
    /\ pc = "idle"
    /\ sma = 0
    /\ threshold = Zero
    /\ candle = Unbound
    /\ err = "none"
    /\ log = <<>>
    /\ apiCalls = 0
    /\ call = NoCall

NextAny ==
    \/ \E s \in Windows, thr \in AnyThresholds : StartRun(s, thr)
    \/ Bar
    \/ EndRun

SpecAny == InitAny /\ [][NextAny]_vars

NonPositive == RLe(threshold, Zero) \/ RLe(initial_amount, Zero) \/ sma <= 0

(* C12 as stated: a run configured with a non-positive threshold or        *)
(* initial_amount (or sma_window) is rejected before any bar is processed: *)
(* no buy, sell or close-out is executed.                                  *)
C12_InvalidRejected == (pc # "idle" /\ NonPositive) => log = <<>>

----------------------------------------------------------------------------
(* Degenerate series *)

(* a constant close price: the difference is 0 on every defined bar *)
Degenerate == \A i \in 1..NumBars : data[i] = data[1]

(* C13 as stated: on a degenerate series every bar is a no-trigger bar and *)
(* the run completes without error with exactly one trade, the forced      *)
(* close-out, and final cash equal to initial_amount.                      *)
C13_DegenerateCompletes ==
    (Degenerate /\ pc \in {"done", "failed"}) =>
        (pc = "done" /\ err = "none" /\ trades = 1 /\ amount = initial_amount)

(* the part of C13 that the code keeps: a degenerate run that reaches its  *)
(* close-out made no other trade and ends with its initial cash            *)
DegenerateDoneFlat ==
    (Degenerate /\ pc = "done") =>
        (trades = 1 /\ Len(log) = 1 /\ amount = initial_amount)

----------------------------------------------------------------------------
(* The order executor in floating point.  Python's float is binary with a  *)
(* 53-bit significand and round-half-to-even; the model keeps the rounding *)
(* rule and narrows the significand to MantissaBits.                       *)

MantissaBits == 3

(* the binary exponent e with 2^(MantissaBits-1) <= a / (d * 2^e) < 2^MantissaBits *)
RECURSIVE Exponent(_, _)
Exponent(a, d) ==
    IF a >= (2 ^ MantissaBits) * d THEN Exponent(a, 2 * d) + 1
    ELSE IF a < (2 ^ (MantissaBits - 1)) * d THEN Exponent(2 * a, d) - 1
    ELSE 0

(* a / d rounded to the nearest integer, ties to the even one *)
RoundHalfEven(a, d) ==
    LET q == a \div d
        r == a % d
    IN  IF 2 * r < d THEN q
        ELSE IF 2 * r > d THEN q + 1
        ELSE IF q % 2 = 0 THEN q ELSE q + 1

(* the float nearest to the rational x *)
FRound(x) ==
    IF x[1] = 0 THEN Zero
    ELSE LET a == Abs(x[1])
             e == Exponent(a, x[2])
             m == IF e >= 0 THEN RoundHalfEven(a, x[2] * (2 ^ e))
                  ELSE RoundHalfEven(a * (2 ^ (0 - e)), x[2])
             s == IF x[1] < 0 THEN 0 - 1 ELSE 1
         IN  IF e >= 0 THEN Rat(s * m * (2 ^ e), 1) ELSE Rat(s * m, 2 ^ (0 - e))

FAdd(x, y) == FRound(RAdd(x, y))
FSub(x, y) == FRound(RSub(x, y))
FMul(x, y) == FRound(RMul(x, y))
FDiv(x, y) == FRound(RDiv(x, y))

(* the spacing of floats just above 1.0 *)
Ulp == Rat(1, 2 ^ (MantissaBits - 1))

FloatAmounts == {RInt(7), RAdd(One, Ulp)}
FloatUnits == {RInt(1), RInt(4)}
FloatFixedCosts == {Zero, RInt(1)}
FloatPropCosts == {Zero, FRound(<<1, 10>>)}
FloatSizes ==
    {<<None, None>>} \cup (FloatUnits \X {None}) \cup ({None} \X ApiAmounts)

PlaceBuyOrderFloat(L, c, u, a) ==
    LET price == Price(c)
        n == IF u = None THEN FDiv(a, price) ELSE u
    IN  [L EXCEPT
           !.amount = FSub(L.amount, FAdd(FMul(FMul(n, price), FAdd(One, ptc)), ftc)),
           !.units = FAdd(L.units, n),
           !.trades = L.trades + 1,
           !.log = Append(L.log, Line(L, "buy", c, u, a))]

PlaceSellOrderFloat(L, c, u, a) ==
    LET price == Price(c)
        n == IF u = None THEN FDiv(a, price) ELSE u
    IN  [L EXCEPT
           !.amount = FAdd(L.amount, FSub(FMul(FMul(n, price), FSub(One, ptc)), ftc)),
           !.units = FSub(L.units, n),
           !.trades = L.trades + 1,
           !.log = Append(L.log, Line(L, "sell", c, u, a))]

InitFloat ==
    /\ strategy \in Strategies
    /\ data \in ApiSeries
    /\ initial_amount \in FloatAmounts
    /\ ftc \in FloatFixedCosts
    /\ ptc \in FloatPropCosts
    /\ amount = initial_amount
    /\ units = Zero
    /\ position = 0
    /\ trades = 0
    /\ pc = "idle"
    /\ sma = 0
    /\ threshold = Zero
    /\ candle = Unbound
    /\ err = "none"
    /\ log = <<>>
    /\ apiCalls = 0
    /\ call = NoCall

CallBuyFloat(c, u, a) ==
    /\ CanCall
    /\ call' = Called("buy", c, u, a)
    /\ apiCalls' = apiCalls + 1
    /\ IF u = None /\ a = None
       THEN /\ err' = "TypeError"
            /\ UNCHANGED <<amount, units, trades, position, log>>
       ELSE /\ err' = "none"
            /\ Store(PlaceBuyOrderFloat(Ledger, c, u, a))
    /\ ApiFrame

CallSellFloat(c, u, a) ==
    /\ CanCall
    /\ call' = Called("sell", c, u, a)
    /\ apiCalls' = apiCalls + 1
    /\ IF u = None /\ a = None
       THEN /\ err' = "TypeError"
            /\ UNCHANGED <<amount, units, trades, position, log>>
       ELSE /\ err' = "none"
            /\ Store(PlaceSellOrderFloat(Ledger, c, u, a))
    /\ ApiFrame

NextFloat ==
    \/ \E c \in ApiCandles, s \in FloatSizes : CallBuyFloat(c, s[1], s[2])
    \/ \E c \in ApiCandles, s \in FloatSizes : CallSellFloat(c, s[1], s[2])

SpecFloat == InitFloat /\ [][NextFloat]_vars

(* a buy of U units at P immediately followed by a sell of U units at P *)
RoundTrips ==
    {k \in Calls("buy") :
        /\ k < Len(log)
        /\ log[k + 1].op = "sell"
        /\ log[k].units # None
        /\ log[k + 1].units = log[k].units
        /\ log[k + 1].price = log[k].price}

RoundTripRestores ==
    \A k \in RoundTrips :
        /\ After(k + 1).cash = log[k].cash0
        /\ After(k + 1).units = log[k].units0
        /\ After(k + 1).trades = log[k].trades0 + 2

(* C14 as stated: with ftc = 0 and ptc = 0, buying U units at P and then   *)
(* immediately selling U units at P leaves cash and units as they were     *)
(* before the buy, and the trade count 2 higher.                           *)
C14_RoundTrip == (ftc = Zero /\ ptc = Zero) => RoundTripRestores

----------------------------------------------------------------------------
(* Reset and determinism *)

(* the ledger of a newly constructed instance with the same configuration *)
FreshLedger ==
    [amount |-> initial_amount, units |-> Zero, trades |-> 0, position |-> 0,
     log |-> <<>>]

(* the loop from bar c on, applied to the ledger L *)
RECURSIVE RunFrom(_, _)
RunFrom(L, c) ==
    IF c >= NumBars THEN L ELSE RunFrom(BarDecision(L, c), c + 1)

(* the run with the current sma and threshold on a newly constructed       *)
(* instance: the ledger it ends with (the reset ledger when it aborts)     *)
FreshRun ==
    IF sma >= NumBars THEN FreshLedger
    ELSE CloseOut(RunFrom(FreshLedger, sma), NumBars - 1)

ResetAndSameAsFresh ==
    /\ (pc = "loop" /\ candle = Unbound) =>
           (amount = initial_amount /\ position = 0 /\ trades = 0)
    /\ pc \in {"done", "failed"} =>
           LET fresh == FreshRun
           IN  <<amount, trades>> = <<fresh.amount, fresh.trades>>

(* C15: each run starts with cash = initial_amount, position FLAT and      *)
(* trade count 0 whatever the earlier runs of the instance left, and ends  *)
(* with the final cash and trade count that the same run gives on a newly  *)
(* constructed instance.                                                   *)
C15_ResetAndDeterministic == []ResetAndSameAsFresh

(* a finished run that traded and ended with other cash than it began with *)
C15_Witness ==
    /\ pc = "done"
    /\ trades >= 3
    /\ amount # initial_amount
    /\ position # 0

----------------------------------------------------------------------------
(* The summary of a run *)

----------------------------------------------------------------------------
(* One transition per bar *)

(* the condition of the current state of a LongOnly run holds on bar i *)
LongOnlyCondition(i) ==
    \/ position = 0 /\ NormLess(sma, i, RNeg(threshold))
    \/ position = 1 /\ NormGe(sma, i, Zero)

C17_Step ==
    (BarStep /\ strategy = "LongOnly") =>
        /\ Len(log') <= Len(log) + 1
        /\ trades' <= trades + 1
        /\ position' \in {position, 1 - position}
        /\ (position' # position) <=> (Len(log') = Len(log) + 1)
        /\ ~LongOnlyCondition(candle') =>
               UNCHANGED <<amount, units, position, trades, log>>

(* C17: each bar of a LongOnly run makes at most one transition, with at   *)
(* most one buy or sell call, and a bar on which the condition of the      *)
(* current state does not hold leaves cash, units, position and trade      *)
(* count unchanged.                                                        *)
C17_OneTransitionPerBar == [][C17_Step]_vars

(* a long position carried over a bar without a trade: bought on an        *)
(* earlier bar, nothing since                                              *)
C17_Witness ==
    /\ strategy = "LongOnly"
    /\ pc = "loop"
    /\ position = 1
    /\ Len(log) = 1
    /\ candle > log[1].candle
    /\ ~NormGe(sma, candle, Zero)

----------------------------------------------------------------------------
(* Order of the bars *)

(* the trade lines that a step appends *)
NewLines == {k \in DOMAIN log' : k > Len(log)}

C18_Step ==
    /\ BarStep =>
           /\ candle' = (IF candle = Unbound THEN sma ELSE candle + 1)
           /\ candle' >= sma
           /\ candle' <= NumBars - 1
           /\ \A k \in NewLines : log'[k].candle = candle'
           /\ \A k \in DOMAIN log : log'[k] = log[k] /\ log[k].candle < candle'
    /\ (pc = "loop" /\ pc' = "done") =>
           /\ candle = NumBars - 1
           /\ \A k \in NewLines : log'[k].op = "close"
           /\ \A k \in DOMAIN log : log[k].candle >= sma

(* C18: the bars are evaluated one per step in increasing order from index *)
(* sma to the last index; the orders of a bar are issued, and the ledger   *)
(* changed, in the step of that bar, so no buy or sell carries an index    *)
(* below sma or is issued after a later bar was evaluated, and the         *)
(* close-out follows the last bar.                                         *)
C18_BarOrder == [][C18_Step]_vars

(* a finished run that traded on its first bar, index sma, and again later *)
C18_Witness ==
    /\ pc = "done"
    /\ candle = NumBars - 1
    /\ Len(log) >= 3
    /\ log[1].candle = sma
    /\ log[2].candle > sma

----------------------------------------------------------------------------
(* Sizes of direct calls *)

Buying == call'.op \in {"buy", "go_long"}
Entering == call'.op \in {"go_long", "go_short"}
CallPrice == RInt(data[call'.candle + 1])

(* the ledger after one order of n units at the price of the call's bar *)
OneOrder(n) ==
    /\ amount' = IF Buying
                 THEN RSub(RSub(amount, RMul(RMul(n, CallPrice), RAdd(One, ptc))), ftc)
                 ELSE RSub(RAdd(amount, RMul(RMul(n, CallPrice), RSub(One, ptc))), ftc)
    /\ units' = IF Buying THEN RAdd(units, n) ELSE RSub(units, n)
    /\ trades' = trades + 1
    /\ Len(log') = Len(log) + 1

(* both sizes supplied; for go-long and go-short a size of 0 counts as not *)
(* supplied                                                                *)
BothSupplied ==
    /\ call'.op \in {"buy", "sell", "go_long", "go_short"}
    /\ call'.units # None
    /\ call'.amount # None
    /\ Entering => call'.units # Zero

C19_Step == (CallStep /\ BothSupplied) => OneOrder(call'.units)

C20_Step ==
    (CallStep /\ Entering) =>
        /\ (call'.units = Zero /\ call'.amount \notin {None, Zero, All}) =>
               OneOrder(RDiv(call'.amount, CallPrice))
        /\ (call'.units \in {None, Zero} /\ call'.amount = Zero) =>
               UNCHANGED <<amount, units, trades, log>>

(* C20: go-long and go-short take a size of exactly 0 as not supplied:     *)
(* units = 0 with a non-zero amount issues one order of amount / price     *)
(* units, and amount = 0 without units issues no order and leaves cash,    *)
(* units and trade count unchanged.                                        *)
C20_ZeroIsUnset == [][C20_Step]_vars

(* a go-long with amount 0 that did nothing, after a go-short with units 0 *)
(* that was sized by its amount                                            *)
C20_Witness ==
    /\ call.op = "go_long"
    /\ call.units = None
    /\ call.amount = Zero
    /\ Len(log) = 1
    /\ log[1].op = "sell"
    /\ log[1].units = None
    /\ trades = 1

(* the consequence for runs: a flat LongShort ledger with cash exactly 0   *)
(* on a trigger bar changes its position without any order                 *)
ZeroCashEntry ==
    (/\ BarStep
     /\ strategy = "LongShort"
     /\ position = 0
     /\ amount = Zero
     /\ \/ NormLess(sma, candle', RNeg(threshold))
        \/ NormGreater(sma, candle', threshold))
    => (position' # 0 /\ UNCHANGED <<amount, units, trades, log>>)

ZeroCashEntryHolds == [][ZeroCashEntry]_vars

ZeroCashEntered ==
    /\ strategy = "LongShort"
    /\ pc = "loop"
    /\ position # 0
    /\ amount = Zero
    /\ units = Zero
    /\ log # <<>>
    /\ log[Len(log)].candle < candle

----------------------------------------------------------------------------
(* Holdings of a LongOnly run *)

(* C21 as stated: a LongOnly run (initial_amount > 0, ftc >= 0, ptc >= 0)  *)
(* never holds a short position: units >= 0 in every state, and the entry  *)
(* buy(amount = cash) is never issued while cash is negative.              *)
C21_LongOnlyNeverShort ==
    strategy = "LongOnly" =>
        /\ RLe(Zero, units)
        /\ \A k \in Calls("buy") : RLe(Zero, log[k].amount)

----------------------------------------------------------------------------
(* Net wealth: cash + units * close price of the bar *)

NetWealth(cash, held, price) == RAdd(cash, RMul(held, price))

(* the net wealth, valued at the bar of line k, before and after the call *)
WealthBefore(k) == NetWealth(log[k].cash0, log[k].units0, log[k].price)
WealthAfter(k) == NetWealth(After(k).cash, After(k).units, log[k].price)

(* C22 as stated: every buy or sell of U >= 0 units at close price P       *)
(* lowers the net wealth valued at that bar by exactly U*P*ptc + ftc, and  *)
(* every close-out leaves it unchanged; without costs no call changes it.  *)
C22_NetWealth ==
    /\ \A k \in Calls("buy") \cup Calls("sell") :
           LET U == SizeOf(log[k])
           IN  RLe(Zero, U) =>
                   WealthAfter(k) =
                       RSub(WealthBefore(k),
                            RAdd(RMul(RMul(U, log[k].price), ptc), ftc))
    /\ \A k \in Calls("close") : WealthAfter(k) = WealthBefore(k)

----------------------------------------------------------------------------
(* Holdings at the start of a run *)

(* C23: units is 0 whenever a run starts, first or re-invoked: it is 0 at  *)
(* construction, every run that reaches its end has zeroed it in the       *)
(* close-out, and a run that aborted has executed no trade.                *)
C23_UnitsZeroAtRunStart ==
    /\ pc \in {"idle", "done", "failed"} => units = Zero
    /\ (pc = "loop" /\ candle = Unbound) => units = Zero
    /\ pc = "failed" => (log = <<>> /\ trades = 0)

(* a finished run whose close-out cleared a holding: a further run starts  *)
(* from here                                                               *)
C23_Witness ==
    /\ pc = "done"
    /\ units = Zero
    /\ log[Len(log)].op = "close"
    /\ log[Len(log)].units0 # Zero

----------------------------------------------------------------------------
(* Transitions of a LongShort run *)

C24_Step ==
    (BarStep /\ strategy = "LongShort") =>
        /\ position # 0 => position' \in {position, 0}
        /\ position' # position => (position = 0 \/ position' = 0)
        /\ Len(log') <= Len(log) + 1
        /\ trades' <= trades + 1
        /\ \A k \in NewLines :
               IF position = 0
               THEN log'[k].units = None /\ log'[k].amount = amount
               ELSE log'[k].amount = None /\ position' = 0

(* C24: a bar of a LongShort run never takes the position from LONG to     *)
(* SHORT or back: entries are made only from FLAT, by one order sized by   *)
(* the cash (the liquidation of an opposite position is never part of an   *)
(* entry), an open position can only be closed, and a bar issues at most   *)
(* one buy or sell.                                                        *)
C24_NoDirectReversal == [][C24_Step]_vars

(* a run that was long, went flat on a later bar and is short now *)
C24_Witness ==
    /\ strategy = "LongShort"
    /\ position = 0 - 1
    /\ Len(log) = 3
    /\ log[1].op = "buy"
    /\ log[2].op = "sell"
    /\ log[2].candle > log[1].candle
    /\ log[3].op = "sell"
    /\ log[3].candle > log[2].candle

====
